---- MODULE Spec2Model ----
(***************************************************************************)
(* A model of the flocking core of MonasBoids: the Boid (kinematic state,  *)
(* steering forces, parameter setters), the Octree spatial index and the   *)
(* Flock that drives both every tick.                                       *)
(*                                                                         *)
(* Numbers.  The program computes with IEEE doubles.  The model computes   *)
(* in fixed point: a finite number q is the integer q * Unit (Unit = 100,  *)
(* so 2.0 is 200 and 0.05 is 5); products are divided back by Unit and     *)
(* quotients truncate towards zero.  The non-finite doubles the setters    *)
(* can be handed (NaN, +Infinity, -Infinity) are kept as their own values  *)
(* (a JS number is a record [kind, val]), and a vector carries a flag nan  *)
(* that is TRUE once any of its components is not finite.                  *)
(***************************************************************************)
EXTENDS Integers, Sequences, FiniteSets, TLC

VARIABLES
    boids,      \* Flock.boids: the sequence of Boid objects (records)
    obstacles,  \* Flock.obstacles: the sequence of obstacle positions
    boidSize,   \* Flock.boidSize
    octree,     \* Flock.octree.root: a tree of OctreeNode records
    pc,         \* where Flock.update() is: "idle" or "updating"
    idx,        \* the index of the next boid of Flock.update()'s second loop
    found,      \* the result of the last queryRange / findNeighbors call
    lastOp,     \* the last call made on the Flock or the Octree, with its arguments
    inserted,   \* the ids handed to Octree.insert since the last Octree.clear
    ticks,      \* completed Flock.update() calls
    calls,      \* setter / obstacle calls made so far
    created,    \* the number of Boid objects constructed so far (object identity)
    sboids,         \* the Flock with a settling flag: its boids
    needsSettling,  \* the Flock with a settling flag: needsSettling
    lastUpdateTime, \* the Flock with a settling flag: lastUpdateTime, in ms
    now,            \* what performance.now() returns, in ms
    sobstacles,     \* the Flock with a settling flag: the positions of its obstacles
    wall            \* the createWallOfObstacles call of that Flock: its locals and its position

\* the fields of the settling variant of Flock, and the clock it reads
settlingFlock == <<sboids, needsSettling, lastUpdateTime, now, sobstacles, wall>>

vars == <<boids, obstacles, boidSize, octree, pc, idx, found, lastOp, inserted, ticks, calls,
          created, settlingFlock>>

----------------------------------------------------------------------------
(* Fixed-point numbers *)

Unit == 10 * 10

Abs(a) == IF a < 0 THEN -a ELSE a
Min(a, b) == IF a < b THEN a ELSE b
Max(a, b) == IF a > b THEN a ELSE b
Sign(a) == IF a > 0 THEN 1 ELSE IF a < 0 THEN -1 ELSE 0

\* a / b for b > 0, truncated towards zero
TDiv(a, b) == IF a >= 0 THEN a \div b ELSE -((-a) \div b)

RECURSIVE SqrtIter(_, _)
SqrtIter(n, x) ==
    CHOOSE root \in {IF y >= x THEN x ELSE SqrtIter(n, y) : y \in {(x + n \div x) \div 2}} : TRUE

\* floor(sqrt(n)) for n >= 0
ISqrt(n) == IF n < 2 THEN n ELSE SqrtIter(n, n \div 2 + 1)

(* JS numbers as the setters receive them *)
Fin(n) == [kind |-> "fin", val |-> n]
NaN == [kind |-> "nan", val |-> 0]
PosInf == [kind |-> "inf", val |-> 1]
NegInf == [kind |-> "inf", val |-> -1]

IsNaN(w) == w.kind = "nan"
\* w < 0 and w <= 0 as JS evaluates them: every comparison with NaN is false
LessThanZero(w) == \/ (w.kind = "fin" /\ w.val < 0)
                   \/ (w.kind = "inf" /\ w.val < 0)
AtMostZero(w) == \/ (w.kind = "fin" /\ w.val <= 0)
                 \/ (w.kind = "inf" /\ w.val < 0)
IsFinite(w) == w.kind = "fin"

----------------------------------------------------------------------------
(* THREE.Vector3, as the Boid and the Octree use it *)

Vec(a, b, c) == [x |-> a, y |-> b, z |-> c, nan |-> FALSE]
ZeroVec == Vec(0, 0, 0)
NaNVec == [x |-> 0, y |-> 0, z |-> 0, nan |-> TRUE]

VAdd(u, v) == IF u.nan \/ v.nan THEN NaNVec ELSE Vec(u.x + v.x, u.y + v.y, u.z + v.z)
VSub(u, v) == IF u.nan \/ v.nan THEN NaNVec ELSE Vec(u.x - v.x, u.y - v.y, u.z - v.z)

\* v * (num / den) with den > 0: multiplyScalar by a finite factor
VScale(v, num, den) ==
    IF v.nan THEN NaNVec
    ELSE Vec(TDiv(v.x * num, den), TDiv(v.y * num, den), TDiv(v.z * num, den))

LenSq(v) == v.x * v.x + v.y * v.y + v.z * v.z
\* Vector3.length(), rounded down; only asked of finite vectors
VLen(v) == ISqrt(LenSq(v))

\* ceil(sqrt(n)) for n >= 0
ISqrtUp(n) == LET r == ISqrt(n) IN IF r * r = n THEN r ELSE r + 1

\* Vector3.normalize().multiplyScalar(m): normalize() divides by (length() || 1),
\* so the zero vector stays the zero vector.  The length is taken to 1/100 of
\* a unit when the vector is short, and rounded up, so that the result is
\* never longer than m
VSetLength(v, m) ==
    IF v.nan THEN NaNVec
    ELSE IF LenSq(v) = 0 THEN ZeroVec
    ELSE IF LenSq(v) < 200000
         THEN VScale(v, m * 100, ISqrtUp(LenSq(v) * 10000))
         ELSE VScale(v, m, ISqrtUp(LenSq(v)))

\* Vector3.clampLength(0, m): divideScalar(length() || 1).multiplyScalar(max(0, min(m, length())))
VClampLength(v, m) ==
    IF v.nan THEN NaNVec
    ELSE IF LenSq(v) > m * m THEN VSetLength(v, m)
    ELSE v

\* length() > m, decided without squaring a component larger than m
VLenGT(v, m) ==
    /\ ~v.nan
    /\ \/ Abs(v.x) > m \/ Abs(v.y) > m \/ Abs(v.z) > m
       \/ LenSq(v) > m * m

\* length() <= m, likewise (false of a NaN vector, as every comparison with NaN)
VLenLE(v, m) ==
    /\ ~v.nan
    /\ Abs(v.x) <= m /\ Abs(v.y) <= m /\ Abs(v.z) <= m
    /\ LenSq(v) <= m * m

----------------------------------------------------------------------------
(* Boid: fields and parameter API (the later variant of Boid.ts) *)

DefaultMaxSpeed == 2 * Unit
DefaultMinSpeed == Unit \div 2
MaxForce == (5 * Unit) \div 100
BaseSeparation == 25 * Unit
BaseAlignment == 75 * Unit
BaseCohesion == 100 * Unit
MinSpeedPercent == 25

Behaviors == {"separation", "alignment", "cohesion", "avoidance"}

DefaultRanges ==
    [separation |-> BaseSeparation, alignment |-> BaseAlignment, cohesion |-> BaseCohesion]

\* 2.0, 1.3, 0.8, 2.0
DefaultWeights ==
    [separation |-> Fin(2 * Unit), alignment |-> Fin((13 * Unit) \div 10),
     cohesion |-> Fin((8 * Unit) \div 10), avoidance |-> Fin(2 * Unit)]

\* new Boid(position), with the velocity the constructor drew and the
\* mesh scale Flock.createBoids then applies
NewBoid(id, position, velocity, size) ==
    [id |-> id, pos |-> position, vel |-> velocity,
     maxSpeed |-> DefaultMaxSpeed, minSpeed |-> DefaultMinSpeed,
     ranges |-> DefaultRanges, weights |-> DefaultWeights, scale |-> size]

BoidGetPerceptionRadius(b) == b.ranges.cohesion

\* Boid.setPerceptionRadius(radius), radius finite and positive
BoidSetPerceptionRadius(b, radius) ==
    [b EXCEPT !.ranges =
        [separation |-> TDiv(25 * Unit * radius, b.ranges.cohesion),
         alignment |-> TDiv(75 * Unit * radius, b.ranges.cohesion),
         cohesion |-> radius]]

\* the mutant of Boid.setWeight: the validation that rejects nothing
BoidSetWeightUnchecked(b, behavior, weight) ==
    [b EXCEPT !.weights[behavior] = weight]

\* Boid.setWeight(behavior, weight)
BoidSetWeight(b, behavior, weight) ==
    IF IsNaN(weight) \/ LessThanZero(weight)
    THEN b
    ELSE [b EXCEPT !.weights[behavior] = weight]

BoidGetWeight(b, behavior) == b.weights[behavior]

\* the mutant of Boid.setMaxSpeed: the velocity is rescaled to the new
\* maximum whatever its magnitude
BoidSetMaxSpeedAlwaysRescale(b, speed) ==
    [b EXCEPT !.maxSpeed = speed,
              !.vel = VSetLength(b.vel, speed),
              !.minSpeed = (speed * MinSpeedPercent) \div 100]

\* Boid.setMaxSpeed(speed), speed finite
BoidSetMaxSpeed(b, speed) ==
    [b EXCEPT !.maxSpeed = speed,
              !.vel = IF VLenGT(b.vel, speed) THEN VSetLength(b.vel, speed) ELSE b.vel,
              !.minSpeed = (speed * MinSpeedPercent) \div 100]

BoidGetMaxSpeed(b) == b.maxSpeed

----------------------------------------------------------------------------
(* Octree (OctreeNode and Octree).  A node is a record                     *)
(*   [min, max: the corners of its THREE.Box3, boids: the ids it holds,    *)
(*    children: its 8 child nodes, or << >> for null].                     *)
(* The tree holds references to Boid objects: ids here, whose positions    *)
(* are read from the Boid objects (bs) whenever the code reads them.       *)

NodeMaxBoids == 8
NodeMinSize == 5 * Unit
WorldSize == 400 * Unit

BoidById(bs, id) == bs[CHOOSE i \in 1..Len(bs) : bs[i].id = id]
PosOf(bs, id) == BoidById(bs, id).pos

\* new OctreeNode(center, size)
NewNode(center, size) ==
    LET halfSize == VScale(size, 1, 2)
    IN [min |-> VSub(center, halfSize), max |-> VAdd(center, halfSize),
        boids |-> <<>>, children |-> <<>>]

\* Box3.containsPoint of three r162: "p.x < min.x || p.x > max.x || ... ? false : true",
\* which is true of a point whose coordinates are NaN
BoxContainsPoint(node, p) ==
    \/ p.nan
    \/ ~(\/ p.x < node.min.x \/ p.x > node.max.x
         \/ p.y < node.min.y \/ p.y > node.max.y
         \/ p.z < node.min.z \/ p.z > node.max.z)

\* Box3.getCenter and Box3.getSize
BoxCenter(node) == VScale(VAdd(node.min, node.max), 1, 2)
BoxSize(node) == VSub(node.max, node.min)

Clamp(v, lo, hi) == Max(lo, Min(hi, v))

\* Box3.intersectsSphere: the sphere's center clamped into the box is within the radius
BoxIntersectsSphere(node, center, radius) ==
    /\ ~center.nan
    /\ LET c == Vec(Clamp(center.x, node.min.x, node.max.x),
                    Clamp(center.y, node.min.y, node.max.y),
                    Clamp(center.z, node.min.z, node.max.z))
       IN VLenLE(VSub(c, center), radius)

\* Sphere.containsPoint: distanceToSquared(center) <= radius * radius
SphereContainsPoint(center, radius, p) ==
    /\ ~center.nan /\ ~p.nan
    /\ VLenLE(VSub(p, center), radius)

\* the i-th child subdivide() creates (i = 0..7): its center is this node's center
\* moved by "size" (half this node's size) along each axis, its size is "size"
ChildNode(node, i) ==
    LET center == BoxCenter(node)
        size == VScale(BoxSize(node), 1, 2)
        x == center.x + (IF (i \div 1) % 2 = 1 THEN size.x ELSE -size.x)
        y == center.y + (IF (i \div 2) % 2 = 1 THEN size.y ELSE -size.y)
        z == center.z + (IF (i \div 4) % 2 = 1 THEN size.z ELSE -size.z)
    IN NewNode(Vec(x, y, z), size)

\* the mutant of ShouldSubdivide: the capacity test dropped, the node never splits
NeverSubdivide(node) == FALSE

\* the mutant of ShouldSubdivide: the box is tested against half the minimum size
SubdivideBelowMinSize(node) ==
    /\ Len(node.boids) > NodeMaxBoids
    /\ VLenGT(BoxSize(node), NodeMinSize \div 2)

\* the test of insert(): boids.length > maxBoids and the box's diagonal > minSize
ShouldSubdivide(node) ==
    /\ Len(node.boids) > NodeMaxBoids
    /\ VLenGT(BoxSize(node), NodeMinSize)

RECURSIVE NodeInsert(_, _, _)
RECURSIVE InsertIntoAll(_, _, _, _)
RECURSIVE Redistribute(_, _, _, _)

\* "for (const child of this.children) child.insert(boid)", from child k on
InsertIntoAll(children, k, id, bs) ==
    IF k > Len(children) THEN children
    ELSE InsertIntoAll([children EXCEPT ![k] = NodeInsert(children[k], id, bs)],
                       k + 1, id, bs)

\* the redistribution loop of subdivide(), from existingBoids[k] on
Redistribute(children, existing, k, bs) ==
    IF k > Len(existing) THEN children
    ELSE Redistribute(InsertIntoAll(children, 1, existing[k], bs), existing, k + 1, bs)

\* the mutant of NodeSubdivide: the node's own list is not emptied
NodeSubdivideKeepsBoids(node, bs) ==
    [node EXCEPT
        !.children = Redistribute([i \in 1..8 |-> ChildNode(node, i - 1)], node.boids, 1, bs)]

\* OctreeNode.subdivide()
NodeSubdivide(node, bs) ==
    [node EXCEPT
        !.boids = <<>>,
        !.children = Redistribute([i \in 1..8 |-> ChildNode(node, i - 1)], node.boids, 1, bs)]

\* the mutant of NodeInsert: an internal node also keeps the boid it hands down
NodeInsertKeepsHandedDown(node, id, bs) ==
    IF ~BoxContainsPoint(node, PosOf(bs, id)) THEN node
    ELSE LET pushed == [node EXCEPT !.boids = Append(node.boids, id)]
         IN IF node.children = <<>>
            THEN IF ShouldSubdivide(pushed) THEN NodeSubdivide(pushed, bs) ELSE pushed
            ELSE [pushed EXCEPT !.children = InsertIntoAll(node.children, 1, id, bs)]

\* OctreeNode.insert(boid)
NodeInsert(node, id, bs) ==
    IF ~BoxContainsPoint(node, PosOf(bs, id)) THEN node
    ELSE IF node.children = <<>> THEN
        LET pushed == [node EXCEPT !.boids = Append(node.boids, id)]
        IN IF ShouldSubdivide(pushed) THEN NodeSubdivide(pushed, bs) ELSE pushed
    ELSE [node EXCEPT !.children = InsertIntoAll(node.children, 1, id, bs)]

RECURSIVE NodeQueryRange(_, _, _, _, _)
RECURSIVE QueryChildren(_, _, _, _, _, _)

QueryChildren(children, k, center, radius, acc, bs) ==
    IF k > Len(children) THEN acc
    ELSE QueryChildren(children, k + 1, center, radius,
                       NodeQueryRange(children[k], center, radius, acc, bs), bs)

\* OctreeNode.queryRange(range, found): acc is found so far, the result is found after
NodeQueryRange(node, center, radius, acc, bs) ==
    IF ~BoxIntersectsSphere(node, center, radius) THEN acc
    ELSE LET own == SelectSeq(node.boids,
                        LAMBDA id : SphereContainsPoint(center, radius, PosOf(bs, id)))
         IN QueryChildren(node.children, 1, center, radius, acc \o own, bs)

\* the mutant of NodeClear: the children are neither cleared nor released
NodeClearOwnListOnly(node) == [node EXCEPT !.boids = <<>>]

\* OctreeNode.clear(): this node after the call
NodeClear(node) == [node EXCEPT !.boids = <<>>, !.children = <<>>]

\* new Octree(center, size): the root is a cube of the largest dimension, at the origin
NewOctree(size) ==
    LET maxDim == Max(size.x, Max(size.y, size.z))
    IN NewNode(Vec(0, 0, 0), Vec(maxDim, maxDim, maxDim))

\* the comparator's key: distanceTo(boid.mesh.position), compared through its square
DistSqTo(bs, id, p) == LenSq(VSub(PosOf(bs, id), p))

RECURSIVE InsertSorted(_, _, _, _)
\* one step of a stable sort by ascending distance: id goes after every element
\* that is not farther than it
InsertSorted(sorted, id, bs, p) ==
    IF sorted = <<>> THEN <<id>>
    ELSE IF DistSqTo(bs, Head(sorted), p) <= DistSqTo(bs, id, p)
         THEN <<Head(sorted)>> \o InsertSorted(Tail(sorted), id, bs, p)
         ELSE <<id>> \o sorted

RECURSIVE SortFrom(_, _, _, _, _)
SortFrom(list, k, sorted, bs, p) ==
    IF k > Len(list) THEN sorted
    ELSE SortFrom(list, k + 1, InsertSorted(sorted, list[k], bs, p), bs, p)

\* the mutant of SortByDistance: the list is returned in the order queryRange visited it
SortByDistanceSkipped(list, bs, p) == list

\* Array.prototype.sort((a, b) => a.distanceTo(p) - b.distanceTo(p)), a stable sort
SortByDistance(list, bs, p) == SortFrom(list, 1, <<>>, bs, p)

\* the mutant of FindNeighbors: the boid that asks is not filtered out
FindNeighborsWithSelf(root, id, radius, bs) ==
    LET p == PosOf(bs, id)
    IN SortByDistance(NodeQueryRange(root, p, TDiv(radius * 11, 10), <<>>, bs), bs, p)

\* Octree.findNeighbors(boid, radius): the sphere is 10% larger than the radius
FindNeighbors(root, id, radius, bs) ==
    LET p == PosOf(bs, id)
        all == NodeQueryRange(root, p, TDiv(radius * 11, 10), <<>>, bs)
        others == SelectSeq(all, LAMBDA o : o # id)
    IN SortByDistance(others, bs, p)

----------------------------------------------------------------------------
(* Boid.update and the steering behaviours (the later variant of Boid.ts) *)

WorldBounds == 200 * Unit
BoundaryMargin == 40 * Unit
TurnFactorInv == 10
\* a weight of the weighted averages of align() and cohesion() is kept to 1/1000
WeightUnit == 10 * Unit

RECURSIVE SumVecs(_, _)
\* the sum of the vectors f[k] .. f[Len(f)]
SumVecs(f, k) == IF k > Len(f) THEN ZeroVec ELSE VAdd(f[k], SumVecs(f, k + 1))

RECURSIVE SumInts(_, _)
SumInts(f, k) == IF k > Len(f) THEN 0 ELSE f[k] + SumInts(f, k + 1)

\* the neighbors a behaviour loops over: "if (other === this) continue"
Others(b, neighbors) == SelectSeq(neighbors, LAMBDA id : id # b.id)

\* the strength of one neighbor's push in separate(); a division by a zero
\* distance is Infinity, which Math.min cuts to the cap
SeparationStrength(distance, futureDistance, combinedRadius) ==
    IF distance * 10 < combinedRadius * 12
    THEN IF distance = 0 THEN 20 * Unit
         ELSE Min(20 * Unit, (10 * Unit * Unit * Unit) \div (distance * distance))
    ELSE IF futureDistance < combinedRadius * 2
    THEN IF futureDistance = 0 THEN 15 * Unit
         ELSE Min(15 * Unit, (5 * Unit * Unit) \div futureDistance)
    ELSE IF distance = 0 THEN 8 * Unit
         ELSE Min(8 * Unit, (2 * Unit * Unit * Unit) \div (distance * distance))

\* one pass of the loop of separate(): [hit, v], v the vector added to steering
SeparationOf(b, o) ==
    LET distance == VLen(VSub(b.pos, o.pos))
        combinedRadius == b.scale + o.scale
        myFuturePos == VAdd(b.pos, VScale(b.vel, 1, 2))
        otherFuturePos == VAdd(o.pos, VScale(o.vel, 1, 2))
        futureDistance == VLen(VSub(myFuturePos, otherFuturePos))
        velDiff == VSub(o.vel, b.vel)
        diff == VSub(VSub(b.pos, o.pos), VScale(velDiff, 1, 10))
    IN IF distance < b.ranges.separation \/ futureDistance < combinedRadius * 2
       THEN [hit |-> TRUE,
             v |-> VSetLength(diff, SeparationStrength(distance, futureDistance, combinedRadius))]
       ELSE [hit |-> FALSE, v |-> ZeroVec]

\* Boid.separate(boids)
Separate(b, neighbors, bs) ==
    LET all == [k \in 1..Len(Others(b, neighbors)) |->
                    SeparationOf(b, BoidById(bs, Others(b, neighbors)[k]))]
        hits == SelectSeq(all, LAMBDA r : r.hit)
        count == Len(hits)
        mean == VScale(SumVecs([k \in 1..count |-> hits[k].v], 1), 1, count)
        desiredSpeed == Min(b.maxSpeed * 2, VLen(mean) * 2)
        steer == VSub(VSetLength(mean, desiredSpeed), b.vel)
    IN IF count = 0 THEN ZeroVec
       ELSE IF LenSq(mean) = 0 THEN mean
       ELSE IF count > 2 THEN VScale(steer, 3, 2)
       ELSE steer

\* the weight of one neighbor in align(): 1 - distance / range, in 1/WeightUnit
AlignWeight(b, distance) == WeightUnit - (distance * WeightUnit) \div b.ranges.alignment

\* Boid.align(boids)
Align(b, neighbors, bs) ==
    LET near == SelectSeq(Others(b, neighbors),
                    LAMBDA id : VLen(VSub(b.pos, PosOf(bs, id))) < b.ranges.alignment)
        count == Len(near)
        weight(k) == AlignWeight(b, VLen(VSub(b.pos, PosOf(bs, near[k]))))
        sum == SumVecs([k \in 1..count |-> VScale(BoidById(bs, near[k]).vel, weight(k), 1)], 1)
        totalWeight == SumInts([k \in 1..count |-> weight(k)], 1)
    IN IF count = 0 THEN ZeroVec
       ELSE VSub(VSetLength(VScale(sum, 1, totalWeight), b.maxSpeed), b.vel)

\* the weight of one neighbor in cohesion(), in 1/WeightUnit: max(0.2, 1 - d / range),
\* times d / (2 * combinedRadius) when the two boids are that close
CohesionWeight(b, o, distance) ==
    LET base == Max(WeightUnit \div 5,
                    WeightUnit - (distance * WeightUnit) \div b.ranges.cohesion)
        combinedRadius == b.scale + o.scale
    IN IF distance < combinedRadius * 2
       THEN (base * distance) \div (combinedRadius * 2)
       ELSE base

\* Boid.cohesion(boids).  A total weight of zero makes the center NaN, so that
\* "distance > 0" is false and the steering stays zero
Cohesion(b, neighbors, bs) ==
    LET near == SelectSeq(Others(b, neighbors),
                    LAMBDA id : VLen(VSub(b.pos, PosOf(bs, id))) < b.ranges.cohesion)
        count == Len(near)
        weight(k) == CohesionWeight(b, BoidById(bs, near[k]),
                                    VLen(VSub(b.pos, PosOf(bs, near[k]))))
        sum == SumVecs([k \in 1..count |-> VScale(PosOf(bs, near[k]), weight(k), 1)], 1)
        totalWeight == SumInts([k \in 1..count |-> weight(k)], 1)
        center == VScale(sum, 1, totalWeight)
        desired == VSub(center, b.pos)
        distance == VLen(desired)
        speed == (b.maxSpeed * Min(70, (distance * 2 * 100) \div b.ranges.cohesion)) \div 100
    IN IF count = 0 \/ totalWeight = 0 THEN ZeroVec
       ELSE IF LenSq(desired) = 0 THEN ZeroVec
       ELSE VSub(VSetLength(desired, speed), b.vel)

\* a vector of the same direction whose components are small enough to square
Shrink(v) ==
    LET m == Max(Abs(v.x), Max(Abs(v.y), Abs(v.z)))
    IN IF v.nan \/ m <= 10000 THEN v ELSE VScale(v, 1, m \div 10000 + 1)

\* one pass of the loop of avoidObstacles(): normalize(position - obstacle) / distance,
\* kept 10^6 times larger than a unit (only its direction is used).  At distance zero
\* the zero vector is divided by zero: every component is NaN
AvoidanceOf(b, obstacle) ==
    LET diff == VSub(b.pos, obstacle)
        distance == VLen(diff)
    IN IF distance * 2 < b.ranges.cohesion * 3
       THEN IF distance = 0 THEN NaNVec
            ELSE VScale(VSetLength(diff, 10000), 10000, distance)
       ELSE ZeroVec

\* Boid.avoidObstacles(obstacles).  "steering.length() > 0" is false of a NaN
\* vector, which is then returned as it is
AvoidObstacles(b, obs) ==
    LET steering == SumVecs([k \in 1..Len(obs) |-> AvoidanceOf(b, obs[k])], 1)
    IN IF steering.nan THEN NaNVec
       ELSE IF steering = ZeroVec THEN ZeroVec
       ELSE VClampLength(VSub(VSetLength(Shrink(steering), b.maxSpeed), b.vel), MaxForce)

\* force.multiplyScalar(weight): a weight of Infinity makes every component
\* +-Infinity or NaN (0 * Infinity)
VTimesWeight(v, w) == IF IsFinite(w) THEN VScale(v, w.val, Unit) ELSE NaNVec

\* the pull of enforceBoundaries() on one velocity component
\* steer = -sign(coord) * turnFactor * (dist / margin), turnFactor = 1 / TurnFactorInv
BoundarySteer(coord) ==
    LET dist == Abs(coord) - (WorldBounds - BoundaryMargin)
    IN IF dist > 0
       THEN -Sign(coord) * ((dist * Unit) \div (TurnFactorInv * BoundaryMargin))
       ELSE 0

\* Boid.enforceBoundaries(): Math.abs(NaN) - 160 > 0 is false and clamp(NaN) is NaN
EnforceBoundaries(b) ==
    IF b.pos.nan THEN b
    ELSE [b EXCEPT
            !.vel = VAdd(b.vel, Vec(BoundarySteer(b.pos.x), BoundarySteer(b.pos.y),
                                    BoundarySteer(b.pos.z))),
            !.pos = Vec(Clamp(b.pos.x, -WorldBounds, WorldBounds),
                        Clamp(b.pos.y, -WorldBounds, WorldBounds),
                        Clamp(b.pos.z, -WorldBounds, WorldBounds))]

\* the speed limits of update(): nothing is done to a velocity of length <= 0.0001
\* or to a NaN velocity
LimitSpeed(b, v) ==
    IF v.nan \/ LenSq(v) = 0 THEN v
    ELSE IF VLenGT(v, b.maxSpeed) THEN VSetLength(v, b.maxSpeed)
    ELSE IF LenSq(v) < b.minSpeed * b.minSpeed THEN VSetLength(v, b.minSpeed)
    ELSE v

\* Boid.update(boids, obstacles): the boid after the call.  Each force, the
\* acceleration and the velocity are computed once, as update() does
BoidUpdate(b, neighbors, obs, bs) ==
    LET maxForce(separation) ==
            IF VLenGT(separation, (3 * Unit) \div 2) THEN MaxForce * 2 ELSE MaxForce
        accelerationOf(separation, alignment, cohesion, avoidance) ==
            VClampLength(VAdd(VAdd(separation, alignment), VAdd(cohesion, avoidance)),
                         maxForce(separation))
        moved(velocity) ==
            EnforceBoundaries([b EXCEPT !.vel = velocity, !.pos = VAdd(b.pos, velocity)])
    IN CHOOSE after \in
        {moved(velocity) : velocity \in
            {LimitSpeed(b, VAdd(b.vel, acceleration)) : acceleration \in
                {accelerationOf(separation, alignment, cohesion, avoidance) :
                    separation \in {VTimesWeight(Separate(b, neighbors, bs), b.weights.separation)},
                    alignment \in {VTimesWeight(Align(b, neighbors, bs), b.weights.alignment)},
                    cohesion \in {VTimesWeight(Cohesion(b, neighbors, bs), b.weights.cohesion)},
                    avoidance \in {VTimesWeight(AvoidObstacles(b, obs), b.weights.avoidance)}}}} : TRUE

----------------------------------------------------------------------------
(* Flock *)

DefaultBoidSize == 2 * Unit

Ids(bs) == [k \in 1..Len(bs) |-> bs[k].id]

RECURSIVE InsertAll(_, _, _)
\* "for (const boid of this.boids) this.octree.insert(boid)", from boid k on
InsertAll(root, bs, k) ==
    IF k > Len(bs) THEN root ELSE InsertAll(NodeInsert(root, bs[k].id, bs), bs, k + 1)

\* the mutant of FlockSetWeight: the loop over the boids stops after the first
FlockSetWeightFirstOnly(bs, behavior, weight) ==
    IF IsNaN(weight) \/ LessThanZero(weight) THEN bs
    ELSE [k \in 1..Len(bs) |-> IF k = 1 THEN BoidSetWeight(bs[k], behavior, weight) ELSE bs[k]]

\* Flock.setWeight(behavior, weight): the boids after the call
FlockSetWeight(bs, behavior, weight) ==
    IF IsNaN(weight) \/ LessThanZero(weight) THEN bs
    ELSE [k \in 1..Len(bs) |-> BoidSetWeight(bs[k], behavior, weight)]

\* the mutant of FlockSetMaxSpeed: only NaN is rejected
FlockSetMaxSpeedNaNOnly(bs, speed) ==
    IF IsNaN(speed) THEN bs
    ELSE [k \in 1..Len(bs) |-> BoidSetMaxSpeed(bs[k], speed.val)]

\* Flock.setMaxSpeed(speed): the boids after the call
FlockSetMaxSpeed(bs, speed) ==
    IF IsNaN(speed) \/ AtMostZero(speed) THEN bs
    ELSE [k \in 1..Len(bs) |-> BoidSetMaxSpeed(bs[k], speed.val)]

\* Flock.setPerceptionRadius(radius): the boids after the call
FlockSetPerceptionRadius(bs, radius) ==
    IF IsNaN(radius) \/ AtMostZero(radius) THEN bs
    ELSE [k \in 1..Len(bs) |-> BoidSetPerceptionRadius(bs[k], radius.val)]

\* Flock.setBoidSize(size): the boids after the call
FlockSetBoidSize(bs, size) == [k \in 1..Len(bs) |-> [bs[k] EXCEPT !.scale = size]]

(* The inputs the model draws from *)

MaxTicks == 4
MaxCalls == 2

\* 0, 1.5, -1 and the non-finite doubles
WeightInputs == {Fin(0), Fin((3 * Unit) \div 2), Fin(-Unit), NaN, PosInf, NegInf}
\* 32, 1, 0, -2, NaN, -Infinity
SpeedInputs == {Fin(32 * Unit), Fin(Unit), Fin(0), Fin(-2 * Unit), NaN, NegInf}
\* 50, 120, 0, -50, NaN, -Infinity
RadiusInputs == {Fin(50 * Unit), Fin(120 * Unit), Fin(0), Fin(-50 * Unit), NaN, NegInf}
SizeInputs == {Unit, 3 * Unit}
ObstacleInputs == {Vec(-160 * Unit, 0, 0), Vec(-150 * Unit, 0, 0)}

\* the velocity the Boid constructor draws has length 0.9 * maxSpeed and lies
\* close to the horizontal plane
V18 == (9 * DefaultMaxSpeed) \div 10

\* the populations Flock.createBoids may draw: positions within 0.8 of the
\* half-extent (here from -160 to 160 on each axis)
InitialFlocks ==
    { \* one boid on the edge of the boundary margin, heading out
      << <<Vec(-160 * Unit, 0, 0), Vec(-V18, 0, 0)>> >>,
      \* two boids approaching each other
      << <<Vec(0, 0, 0), Vec(V18, 0, 0)>>,
         <<Vec(10 * Unit, 0, 0), Vec(-V18, 0, 0)>> >>,
      \* three boids in a row, the third flying across
      << <<Vec(0, 0, 0), Vec(V18, 0, 0)>>,
         <<Vec(Unit, 0, 0), Vec(V18, 0, 0)>>,
         <<Vec(2 * Unit, 0, 0), Vec((3 * V18) \div 5, 0, (4 * V18) \div 5)>> >> }

\* the mutant of CreateBoids: "this.boids = []" is left out, the flock is resized in place
CreateBoidsKeepsOld(old, flock, size, made) ==
    old \o [k \in 1..(Len(flock) - Len(old)) |->
                NewBoid(made + k, flock[k][1], flock[k][2], size)]

\* Flock.createBoids(count), for one drawn population of count boids: the old boids
\* are dropped and count new Boid objects made (made: the objects made before)
CreateBoids(old, flock, size, made) ==
    [k \in 1..Len(flock) |-> NewBoid(made + k, flock[k][1], flock[k][2], size)]

NoOp == [op |-> "none", behavior |-> "", arg |-> Fin(0)]

\* no createWallOfObstacles call has been made
NoWall == [pc |-> "idle", start |-> ZeroVec, end |-> ZeroVec, spacing |-> 0,
           numObstacles |-> Fin(0), i |-> 0]

Init ==
    /\ \E flock \in InitialFlocks : boids = CreateBoids(<<>>, flock, DefaultBoidSize, 0)
    /\ obstacles = <<>>
    /\ boidSize = DefaultBoidSize
    /\ octree = NewOctree(Vec(WorldSize, WorldSize, WorldSize))
    /\ pc = "idle"
    /\ idx = 1
    /\ found = <<>>
    /\ lastOp = NoOp
    /\ inserted = <<>>
    /\ ticks = 0
    /\ calls = 0
    /\ created = Len(boids)
    /\ sboids = <<>>
    /\ needsSettling = TRUE
    /\ lastUpdateTime = 0
    /\ now = 0
    /\ sobstacles = <<>>
    /\ wall = NoWall

\* the mutant of TickBegin: the octree is not cleared before the boids are inserted
TickBeginWithoutClear ==
    /\ pc = "idle"
    /\ ticks < MaxTicks
    /\ octree' = InsertAll(octree, boids, 1)
    /\ inserted' = Ids(boids)
    /\ pc' = "updating"
    /\ idx' = 1
    /\ lastOp' = [op |-> "rebuild", behavior |-> "", arg |-> Fin(0)]
    /\ UNCHANGED <<boids, obstacles, boidSize, found, ticks, calls, created, settlingFlock>>

\* Flock.update(), lines 51-55: the octree is cleared and every boid inserted
TickBegin ==
    /\ pc = "idle"
    /\ ticks < MaxTicks
    /\ octree' = InsertAll(NodeClear(octree), boids, 1)
    /\ inserted' = Ids(boids)
    /\ pc' = "updating"
    /\ idx' = 1
    /\ lastOp' = [op |-> "rebuild", behavior |-> "", arg |-> Fin(0)]
    /\ UNCHANGED <<boids, obstacles, boidSize, found, ticks, calls, created, settlingFlock>>

\* Flock.update(), lines 62-74: one pass of the loop over the boids
UpdateBoid ==
    /\ pc = "updating"
    /\ idx <= Len(boids)
    /\ LET b == boids[idx]
           neighbors == FindNeighbors(octree, b.id, BoidGetPerceptionRadius(b), boids)
       IN /\ boids' = [boids EXCEPT ![idx] = BoidUpdate(b, neighbors, obstacles, boids)]
          /\ found' = neighbors
    /\ idx' = idx + 1
    /\ lastOp' = [op |-> "update", behavior |-> "", arg |-> Fin(idx)]
    /\ UNCHANGED <<obstacles, boidSize, octree, pc, inserted, ticks, calls, created, settlingFlock>>

\* Flock.update(), lines 76-82: the loop is over, the statistics are logged
TickEnd ==
    /\ pc = "updating"
    /\ idx > Len(boids)
    /\ pc' = "idle"
    /\ ticks' = ticks + 1
    /\ lastOp' = [op |-> "tick", behavior |-> "", arg |-> Fin(0)]
    /\ UNCHANGED <<boids, obstacles, boidSize, octree, idx, found, inserted, calls, created, settlingFlock>>

\* a call from the UI between two frames
CallGuard == pc = "idle" /\ calls < MaxCalls

SetWeight ==
    /\ CallGuard
    /\ \E behavior \in Behaviors, weight \in WeightInputs :
        /\ boids' = FlockSetWeight(boids, behavior, weight)
        /\ lastOp' = [op |-> "setWeight", behavior |-> behavior, arg |-> weight]
    /\ calls' = calls + 1
    /\ UNCHANGED <<obstacles, boidSize, octree, pc, idx, found, inserted, ticks, created, settlingFlock>>

SetMaxSpeed ==
    /\ CallGuard
    /\ \E speed \in SpeedInputs :
        /\ boids' = FlockSetMaxSpeed(boids, speed)
        /\ lastOp' = [op |-> "setMaxSpeed", behavior |-> "", arg |-> speed]
    /\ calls' = calls + 1
    /\ UNCHANGED <<obstacles, boidSize, octree, pc, idx, found, inserted, ticks, created, settlingFlock>>

SetPerceptionRadius ==
    /\ CallGuard
    /\ \E radius \in RadiusInputs :
        /\ boids' = FlockSetPerceptionRadius(boids, radius)
        /\ lastOp' = [op |-> "setPerceptionRadius", behavior |-> "", arg |-> radius]
    /\ calls' = calls + 1
    /\ UNCHANGED <<obstacles, boidSize, octree, pc, idx, found, inserted, ticks, created, settlingFlock>>

SetBoidSize ==
    /\ CallGuard
    /\ \E size \in SizeInputs :
        /\ boidSize' = size
        /\ boids' = FlockSetBoidSize(boids, size)
        /\ lastOp' = [op |-> "setBoidSize", behavior |-> "", arg |-> Fin(size)]
    /\ calls' = calls + 1
    /\ UNCHANGED <<obstacles, octree, pc, idx, found, inserted, ticks, created, settlingFlock>>

\* Flock.addObstacle(position)
AddObstacle ==
    /\ CallGuard
    /\ \E position \in ObstacleInputs :
        /\ obstacles' = Append(obstacles, position)
        /\ lastOp' = [op |-> "addObstacle", behavior |-> "", arg |-> Fin(position.x)]
    /\ calls' = calls + 1
    /\ UNCHANGED <<boids, boidSize, octree, pc, idx, found, inserted, ticks, created, settlingFlock>>

Next ==
    \/ TickBegin
    \/ UpdateBoid
    \/ TickEnd
    \/ SetWeight
    \/ SetMaxSpeed
    \/ SetPerceptionRadius
    \/ SetBoidSize
    \/ AddObstacle

Spec == Init /\ [][Next]_vars

----------------------------------------------------------------------------
(* The Octree on its own: any boid of a population inserted, any sphere    *)
(* queried, the tree cleared, in any order.                                *)

\* populations: positions in world units
OctreePools ==
    { << <<0, 0, 0>>, <<150, 150, 150>>, <<-150, -150, -150>>, <<50, 50, 50>>,
         <<150, -150, 150>>, <<120, 120, 120>>, <<10, 20, 30>>, <<200, 200, 200>>,
         <<-120, 150, 120>>, <<150, 150, 140>>, <<0, 10, 0>> >>,
      << <<250, 0, 0>>, <<110, 110, 110>>, <<130, 130, 130>>, <<140, 140, 140>>,
         <<125, 125, 125>>, <<150, 150, 150>>, <<135, 140, 145>>, <<100, 100, 100>>,
         <<149, 126, 133>>, <<128, 128, 128>> >> }

QueryCenters == {Vec(0, 0, 0), Vec(150 * Unit, 150 * Unit, 150 * Unit),
                 Vec(130 * Unit, 130 * Unit, 130 * Unit)}
QueryRadii == {20 * Unit, 60 * Unit, 250 * Unit}
NeighborRadii == {50 * Unit, 200 * Unit}

PoolBoids(pool) ==
    [k \in 1..Len(pool) |->
        NewBoid(k, Vec(pool[k][1] * Unit, pool[k][2] * Unit, pool[k][3] * Unit),
                Vec(V18, 0, 0), DefaultBoidSize)]

\* the size of a small Octree: its root is halved four times before the floor
SmallSize == 40 * Unit

\* ten boids at one position, a third of the way from the center of the small
\* root to its corner
CoincidentBoids ==
    [k \in 1..10 |->
        NewBoid(k, Vec(SmallSize \div 3, SmallSize \div 3, SmallSize \div 3),
                Vec(V18, 0, 0), DefaultBoidSize)]

\* the Octree of the Flock with one of the populations, or a small Octree with
\* the coincident boids
InitOctree ==
    /\ \/ /\ boids \in {PoolBoids(pool) : pool \in OctreePools}
          /\ octree = NewOctree(Vec(WorldSize, WorldSize, WorldSize))
       \/ /\ boids = CoincidentBoids
          /\ octree = NewOctree(Vec(SmallSize, SmallSize, SmallSize))
    /\ obstacles = <<>>
    /\ boidSize = DefaultBoidSize
    /\ pc = "idle"
    /\ idx = 1
    /\ found = <<>>
    /\ lastOp = NoOp
    /\ inserted = <<>>
    /\ ticks = 0
    /\ calls = 0
    /\ created = Len(boids)
    /\ sboids = <<>>
    /\ needsSettling = TRUE
    /\ lastUpdateTime = 0
    /\ now = 0
    /\ sobstacles = <<>>
    /\ wall = NoWall

\* Octree.insert(boid), for the next boid of the population
OctInsert ==
    /\ Len(inserted) < Len(boids)
    /\ LET id == boids[Len(inserted) + 1].id
       IN /\ octree' = NodeInsert(octree, id, boids)
          /\ inserted' = Append(inserted, id)
          /\ lastOp' = [op |-> "insert", id |-> id]
    /\ UNCHANGED <<boids, obstacles, boidSize, pc, idx, found, ticks, calls, created, settlingFlock>>

\* OctreeNode.queryRange(sphere, []) on the root
OctQueryRange ==
    /\ \E center \in QueryCenters, radius \in QueryRadii :
        /\ found' = NodeQueryRange(octree, center, radius, <<>>, boids)
        /\ lastOp' = [op |-> "queryRange", center |-> center, radius |-> radius]
    /\ UNCHANGED <<boids, obstacles, boidSize, octree, pc, idx, inserted, ticks, calls, created, settlingFlock>>

\* Octree.findNeighbors(boid, radius)
OctFindNeighbors ==
    /\ \E k \in 1..Len(boids), radius \in NeighborRadii :
        /\ found' = FindNeighbors(octree, boids[k].id, radius, boids)
        /\ lastOp' = [op |-> "findNeighbors", id |-> boids[k].id, radius |-> radius]
    /\ UNCHANGED <<boids, obstacles, boidSize, octree, pc, idx, inserted, ticks, calls, created, settlingFlock>>

\* Octree.clear()
OctClear ==
    /\ octree' = NodeClear(octree)
    /\ inserted' = <<>>
    /\ lastOp' = [op |-> "clear"]
    /\ UNCHANGED <<boids, obstacles, boidSize, pc, idx, found, ticks, calls, created, settlingFlock>>

NextOctree ==
    \/ OctInsert
    \/ OctQueryRange
    \/ OctFindNeighbors
    \/ OctClear

SpecOctree == InitOctree /\ [][NextOctree]_vars

----------------------------------------------------------------------------
(* What the claims speak of *)

RootNode == NewOctree(Vec(WorldSize, WorldSize, WorldSize))

Range(seq) == {seq[k] : k \in 1..Len(seq)}

\* the boids handed to insert whose position lies inside the root's bounds
InsertedInBounds == {id \in Range(inserted) : BoxContainsPoint(RootNode, PosOf(boids, id))}

RECURSIVE HeldCount(_, _)
RECURSIVE HeldCountIn(_, _, _)
\* how many times the nodes of a tree hold id
HeldCount(node, id) ==
    Cardinality({k \in 1..Len(node.boids) : node.boids[k] = id})
        + HeldCountIn(node.children, 1, id)
HeldCountIn(children, k, id) ==
    IF k > Len(children) THEN 0
    ELSE HeldCount(children[k], id) + HeldCountIn(children, k + 1, id)

RECURSIVE AllNodes(_)
\* the nodes of a tree
AllNodes(node) ==
    {node} \cup UNION {AllNodes(node.children[k]) : k \in 1..Len(node.children)}

\* C3. Index correctness: queryRange returns exactly the inserted agents whose
\* position lies within the sphere, the set a brute-force distance filter gives.
C3_QueryEqualsBruteForce ==
    lastOp.op = "queryRange" =>
        Range(found) = {id \in InsertedInBounds :
                            SphereContainsPoint(lastOp.center, lastOp.radius, PosOf(boids, id))}

\* C4. Octree conservation: after any sequence of inserts, every agent inside the
\* root bounds is held by exactly one node; none is dropped.
C4_EveryAgentHeldOnce ==
    \A id \in InsertedInBounds : HeldCount(octree, id) = 1

\* C5. Subdivision trigger: up to capacity (8) agents inside its bounds the root stays
\* a leaf holding them; with the 9th it has exactly 8 children and holds no agent
\* itself; and at any depth a leaf over capacity is one too small to subdivide.
C5_SubdivisionTrigger ==
    /\ Cardinality(InsertedInBounds) <= NodeMaxBoids =>
            /\ octree.children = <<>>
            /\ Len(octree.boids) = Cardinality(InsertedInBounds)
    /\ Cardinality(InsertedInBounds) > NodeMaxBoids =>
            /\ Len(octree.children) = 8
            /\ octree.boids = <<>>
    /\ \A n \in AllNodes(octree) :
            (n.children = <<>> /\ Len(n.boids) > NodeMaxBoids) =>
                ~VLenGT(BoxSize(n), NodeMinSize)

\* the 9th agent has just been inserted into the root leaf, which has subdivided
C5_Witness ==
    /\ lastOp.op = "insert"
    /\ Cardinality(InsertedInBounds) = NodeMaxBoids + 1
    /\ Len(octree.children) = 8
    /\ octree.boids = <<>>

\* C6. Neighbor ordering: the list findNeighbors returns is non-decreasing in
\* distance from the querying agent's position.
C6_NeighborsAscending ==
    lastOp.op = "findNeighbors" =>
        \A k \in 1..(Len(found) - 1) :
            DistSqTo(boids, found[k], PosOf(boids, lastOp.id))
                <= DistSqTo(boids, found[k + 1], PosOf(boids, lastOp.id))

\* findNeighbors has returned three or more agents at different distances
C6_Witness ==
    /\ lastOp.op = "findNeighbors"
    /\ Len(found) >= 3
    /\ DistSqTo(boids, found[1], PosOf(boids, lastOp.id))
            < DistSqTo(boids, found[Len(found)], PosOf(boids, lastOp.id))

\* what the fixed-point rounding of a rescaled vector may take from its length (0.03)
SpeedTolerance == (3 * Unit) \div 100

\* the boid whose update() has just returned
JustUpdated == boids[lastOp.arg.val]

\* C1. Speed bound: once Boid.update has returned, the agent's (finite) velocity
\* has a magnitude in [minSpeed, maxSpeed], also inside the boundary margin.
C1_SpeedWithinLimits ==
    (lastOp.op = "update" /\ ~JustUpdated.vel.nan) =>
        /\ LenSq(JustUpdated.vel)
              <= (JustUpdated.maxSpeed + SpeedTolerance) * (JustUpdated.maxSpeed + SpeedTolerance)
        /\ LenSq(JustUpdated.vel)
              >= (JustUpdated.minSpeed - SpeedTolerance) * (JustUpdated.minSpeed - SpeedTolerance)

\* C2. Boundary containment: after Boid.update returns, each position coordinate
\* lies within [-200, 200], whatever the velocity, neighbors and obstacles were.
C2_PositionWithinWorld ==
    lastOp.op = "update" =>
        /\ ~JustUpdated.pos.nan
        /\ Abs(JustUpdated.pos.x) <= WorldBounds
        /\ Abs(JustUpdated.pos.y) <= WorldBounds
        /\ Abs(JustUpdated.pos.z) <= WorldBounds

\* C7. Weight rejection: setWeight with a negative or non-finite value leaves the
\* stored weights of every agent as they were.
C7_InvalidWeightRejected ==
    [][(lastOp'.op = "setWeight"
            /\ (LessThanZero(lastOp'.arg) \/ ~IsFinite(lastOp'.arg)))
        => boids' = boids]_vars

\* C8. Invalid speed/radius rejection: Flock.setMaxSpeed and Flock.setPerceptionRadius
\* with a non-positive or NaN value change no agent (maxSpeed, minSpeed, velocity
\* and ranges are what they were) and return to the caller.
C8_InvalidSpeedOrRadiusRejected ==
    [][(lastOp'.op \in {"setMaxSpeed", "setPerceptionRadius"}
            /\ (IsNaN(lastOp'.arg) \/ AtMostZero(lastOp'.arg)))
        => (boids' = boids /\ pc' = "idle")]_vars

\* setMaxSpeed has just been called with a value that is not positive
C8_Witness ==
    /\ lastOp.op = "setMaxSpeed"
    /\ AtMostZero(lastOp.arg)
    /\ \A k \in 1..Len(boids) : boids[k].maxSpeed = DefaultMaxSpeed

\* C9. Perception-radius rescaling: after any sequence of setPerceptionRadius calls
\* the three ranges keep the ratios they had initially (25 : 75 : 100).
C9_RangeRatiosPreserved ==
    \A k \in 1..Len(boids) :
        /\ boids[k].ranges.separation * BaseCohesion = BaseSeparation * boids[k].ranges.cohesion
        /\ boids[k].ranges.alignment * BaseCohesion = BaseAlignment * boids[k].ranges.cohesion

\* what setMaxSpeed(s) has made of one boid: before, after
MaxSpeedApplied(before, after, s) ==
    /\ after.maxSpeed = s
    /\ Abs(4 * after.minSpeed - s) < 4
    /\ before.vel.nan => after.vel = before.vel
    /\ VLenLE(before.vel, s) => after.vel = before.vel
    /\ VLenGT(before.vel, s) =>
          /\ LenSq(after.vel) <= s * s
          /\ LenSq(after.vel) >= (s - SpeedTolerance) * (s - SpeedTolerance)
          /\ Abs(after.vel.x * VLen(before.vel) - before.vel.x * s) <= VLen(before.vel) + 2 * s
          /\ Abs(after.vel.y * VLen(before.vel) - before.vel.y * s) <= VLen(before.vel) + 2 * s
          /\ Abs(after.vel.z * VLen(before.vel) - before.vel.z * s) <= VLen(before.vel) + 2 * s
    /\ LenSq(after.vel) <= LenSq(before.vel)

\* C10. setMaxSpeed(s), s > 0: maxSpeed is s, minSpeed is 0.25 * s, a velocity of
\* magnitude at most s is unchanged, a faster one is scaled down to magnitude s in
\* the same direction; the speed never increases.
C10_SetMaxSpeedClampsDown ==
    [][(lastOp'.op = "setMaxSpeed" /\ IsFinite(lastOp'.arg) /\ lastOp'.arg.val > 0)
        => /\ Len(boids') = Len(boids)
           /\ \A k \in 1..Len(boids) : MaxSpeedApplied(boids[k], boids'[k], lastOp'.arg.val)]_vars

\* setMaxSpeed(1) has just scaled a faster boid down to speed 1
C10_Witness ==
    /\ lastOp.op = "setMaxSpeed"
    /\ lastOp.arg = Fin(Unit)
    /\ \E k \in 1..Len(boids) :
          /\ boids[k].maxSpeed = Unit
          /\ boids[k].minSpeed = Unit \div 4
          /\ LenSq(boids[k].vel) = Unit * Unit

----------------------------------------------------------------------------
(* The population of the Flock: setBoidCount / getBoidCount, of Flock.ts   *)
(* and of the variant with clustered placement and a settling flag.        *)

\* createBoids draws every position within 0.8 of the half-extent and the Boid
\* constructor a velocity of length 0.9 * maxSpeed
Placements ==
    { <<Vec(-160 * Unit, 0, 0), Vec(-V18, 0, 0)>>,
      <<Vec(10 * Unit, 20 * Unit, 30 * Unit), Vec(0, 0, V18)>> }

CountInputs == {0, 1, 2, 3}

\* the populations of count boids createBoids may draw
Populations(count) == [1..count -> Placements]

\* Flock.getBoidCount()
FlockGetBoidCount(bs) == Len(bs)

(* The clustered placement.  Angles are whole degrees, the sine is Bhaskara's *)
(* rational approximation, in 1/TrigUnit.                                     *)
TrigUnit == 10 * Unit
SinDeg(d) ==
    LET a == d % 360
        h == IF a < 180 THEN a ELSE a - 180
        p == h * (180 - h)
        v == (4 * TrigUnit * p) \div (40500 - p)
    IN IF a < 180 THEN v ELSE -v
CosDeg(d) == SinDeg(d + 90)

\* const maxBoidsPerCluster = 50
MaxBoidsPerCluster == 50
\* formationRadius = this.bounds.width * 0.15
FormationRadius == 150 * Unit
\* 2 * Math.PI * golden_ratio in 1/100 of a degree, full turns left out
GoldenAngle == 22249
\* boid.setInitialVelocity(direction, 30.0)
InitialSpeed == 30 * Unit

CeilDiv(a, b) == (a + b - 1) \div b
NumClusters(count) == Max(2, CeilDiv(count, MaxBoidsPerCluster))
BoidsPerCluster(count) == count \div NumClusters(count)
RemainingBoids(count) == count - BoidsPerCluster(count) * NumClusters(count)

\* the values Math.random() returns, in percent; one createBoids call is
\* modelled with every draw returning the same value
RandomInputs == {0, 50}

\* the center of cluster c
ClusterCenter(c, count, rnd) ==
    LET clusterAngle == (c * 360) \div NumClusters(count)
        clusterRadius == (FormationRadius * (50 + rnd \div 2)) \div 100
    IN Vec((CosDeg(clusterAngle) * clusterRadius) \div TrigUnit,
           ((rnd - 50) * FormationRadius * 4) \div 1000,
           (SinDeg(clusterAngle) * clusterRadius) \div TrigUnit)

\* the position of boid i of cluster c: a golden-angle spiral around the center
ClusterPosition(c, i, count, rnd) ==
    LET theta == ((GoldenAngle * i) % 36000) \div 100
        radius == ISqrt((i * 900 * Unit * Unit) \div BoidsPerCluster(count))
    IN VAdd(ClusterCenter(c, count, rnd),
            Vec((CosDeg(theta) * radius) \div TrigUnit,
                ((rnd - 50) * 20 * Unit) \div 100,
                (SinDeg(theta) * radius) \div TrigUnit))

\* the position of a boid that is left over once the clusters are filled
RemainderPosition(rnd) ==
    LET angle == (rnd * 360) \div 100
        radius == (FormationRadius * rnd) \div 200
    IN Vec((CosDeg(angle) * radius) \div TrigUnit,
           ((rnd - 50) * FormationRadius * 2) \div 1000,
           (SinDeg(angle) * radius) \div TrigUnit)

\* Boid.setInitialVelocity(direction, speed) of the variant of Boid this Flock
\* was written for: the direction at the given speed
SetInitialVelocity(direction, speed) == VSetLength(direction, speed)

\* 80% towards the global center, 20% around it
ClusterVelocity(position) ==
    LET toGlobalCenter == VSetLength(VSub(ZeroVec, position), TrigUnit)
        perpendicular == Vec(-toGlobalCenter.z, 0, toGlobalCenter.x)
    IN SetInitialVelocity(VAdd(VScale(toGlobalCenter, 8, 10), VScale(perpendicular, 2, 10)),
                          InitialSpeed)

RemainderVelocity(position) ==
    SetInitialVelocity(VSetLength(VSub(ZeroVec, position), TrigUnit), InitialSpeed)

\* a Boid of the settling Flock: what the Flock reads and writes of it
SettlingBoid(id, position, velocity) == [id |-> id, pos |-> position, vel |-> velocity]

\* createBoids(count) of the settling Flock: the clusters in turn, then the remainder
ClusteredBoids(count, rnd, made) ==
    [k \in 1..(BoidsPerCluster(count) * NumClusters(count) + RemainingBoids(count)) |->
        IF k <= BoidsPerCluster(count) * NumClusters(count)
        THEN LET c == (k - 1) \div BoidsPerCluster(count)
                 i == (k - 1) % BoidsPerCluster(count)
             IN SettlingBoid(made + k, ClusterPosition(c, i, count, rnd),
                             ClusterVelocity(ClusterPosition(c, i, count, rnd)))
        ELSE SettlingBoid(made + k, RemainderPosition(rnd),
                          RemainderVelocity(RemainderPosition(rnd)))]

SettlingCountInputs == {0, 3, 51}

\* the settling Flock's constructor was handed one of these counts
InitSettlingFlock ==
    /\ \E count \in SettlingCountInputs, rnd \in RandomInputs :
        /\ sboids = ClusteredBoids(count, rnd, Len(boids))
        /\ created = Len(boids) + Len(sboids)
    /\ needsSettling = TRUE
    /\ lastUpdateTime = 0
    /\ now = 0
    /\ sobstacles = <<>>
    /\ wall = NoWall

InitPopulation ==
    /\ \E flock \in InitialFlocks : boids = CreateBoids(<<>>, flock, DefaultBoidSize, 0)
    /\ obstacles = <<>>
    /\ boidSize = DefaultBoidSize
    /\ octree = NewOctree(Vec(WorldSize, WorldSize, WorldSize))
    /\ pc = "idle"
    /\ idx = 1
    /\ found = <<>>
    /\ lastOp = NoOp
    /\ inserted = <<>>
    /\ ticks = 0
    /\ calls = 0
    /\ InitSettlingFlock

\* Flock.setBoidCount(count), of Flock.ts
SetBoidCount ==
    /\ CallGuard
    /\ \E count \in CountInputs : \E flock \in Populations(count) :
        /\ boids' = CreateBoids(boids, flock, boidSize, created)
        /\ created' = created + count
        /\ lastOp' = [op |-> "setBoidCount", behavior |-> "", arg |-> Fin(count)]
    /\ calls' = calls + 1
    /\ UNCHANGED <<obstacles, boidSize, octree, pc, idx, found, inserted, ticks, settlingFlock>>

\* Flock.setBoidCount(count), of the settling Flock
SettlingSetBoidCount ==
    /\ calls < MaxCalls
    /\ \E count \in SettlingCountInputs, rnd \in RandomInputs :
        /\ sboids' = ClusteredBoids(count, rnd, created)
        /\ created' = created + Len(sboids')
        /\ lastOp' = [op |-> "settlingSetBoidCount", behavior |-> "", arg |-> Fin(count)]
    /\ lastUpdateTime' = 0
    /\ needsSettling' = TRUE
    /\ calls' = calls + 1
    /\ UNCHANGED <<boids, obstacles, boidSize, octree, pc, idx, found, inserted, ticks, now,
                   sobstacles, wall>>

NextPopulation ==
    \/ SetBoidCount
    \/ SettlingSetBoidCount

SpecPopulation == InitPopulation /\ [][NextPopulation]_vars

\* C11. Population replacement: after setBoidCount(n), n >= 0, getBoidCount() is n
\* and no agent of the previous population is still in the flock; with clustered
\* placement the clusters and the remainder sum to n.
C11_PopulationReplaced ==
    [][/\ lastOp'.op = "setBoidCount" =>
            /\ FlockGetBoidCount(boids') = lastOp'.arg.val
            /\ Range(Ids(boids')) \cap Range(Ids(boids)) = {}
       /\ lastOp'.op = "settlingSetBoidCount" =>
            /\ FlockGetBoidCount(sboids') = lastOp'.arg.val
            /\ Range(Ids(sboids')) \cap Range(Ids(sboids)) = {}]_vars

\* setBoidCount(2) has replaced a flock of three, and the settling Flock holds 51
\* boids: three clusters of 33 and a remainder of 2
C11_Witness ==
    /\ lastOp.op = "setBoidCount"
    /\ lastOp.arg = Fin(2)
    /\ Len(boids) = 2
    /\ boids[1].id > 3
    /\ Len(sboids) = 51
    /\ NumClusters(51) = 2
    /\ RemainingBoids(51) = 1

----------------------------------------------------------------------------
(* Flock.update() as one step: the octree rebuilt, then every boid updated *)
(* in the order of this.boids, each reading the Boid objects as they are   *)
(* by then.                                                                *)

RECURSIVE UpdateUpTo(_, _, _, _, _)
\* the loop "for (const boid of this.boids)" of Flock.update(), from boid k to boid last;
\* boid k finds its neighbors once and is updated once, and the rest of the loop
\* goes on from the flock that holds it
UpdateUpTo(bs, root, obs, k, last) ==
    IF k > last THEN bs
    ELSE LET rest(updated) == UpdateUpTo([bs EXCEPT ![k] = updated], root, obs, k + 1, last)
         IN CHOOSE after \in
                {rest(updated) : updated \in
                    {BoidUpdate(bs[k], neighbors, obs, bs) : neighbors \in
                        {FindNeighbors(root, bs[k].id, BoidGetPerceptionRadius(bs[k]), bs)}}} : TRUE

\* the boids after Flock.update()
FlockUpdate(bs, root, obs) ==
    UpdateUpTo(bs, InsertAll(NodeClear(root), bs, 1), obs, 1, Len(bs))

\* the headings the Boid constructor may draw (length 0.9 * maxSpeed)
HeadingInputs ==
    {Vec(V18, 0, 0), Vec(-V18, 0, 0), Vec(0, 0, V18), Vec((3 * V18) \div 5, 0, (4 * V18) \div 5)}

\* three boids in a row at x = 0, 1, 2, with any headings
RowFlocks ==
    { << <<Vec(0, 0, 0), h[1]>>, <<Vec(Unit, 0, 0), h[2]>>, <<Vec(2 * Unit, 0, 0), h[3]>> >> :
        h \in [1..3 -> HeadingInputs] }

\* what was called on the Flock before its first update()
TickConfigs == {"default", "separationOnly", "shortSighted"}

\* setPerceptionRadius(20), setWeight('alignment', 0), setWeight('cohesion', 0);
\* or setPerceptionRadius(9.5), setBoidSize(3)
Configured(bs, config) ==
    CASE config = "separationOnly" ->
            FlockSetWeight(
                FlockSetWeight(FlockSetPerceptionRadius(bs, Fin(20 * Unit)),
                               "alignment", Fin(0)),
                "cohesion", Fin(0))
      [] config = "shortSighted" ->
            FlockSetBoidSize(FlockSetPerceptionRadius(bs, Fin((19 * Unit) \div 2)), 3 * Unit)
      [] OTHER -> bs

InitTick ==
    /\ \E flock \in InitialFlocks \cup RowFlocks, config \in TickConfigs :
        /\ boids = Configured(CreateBoids(<<>>, flock, DefaultBoidSize, 0), config)
        /\ boidSize = IF config = "shortSighted" THEN 3 * Unit ELSE DefaultBoidSize
    /\ obstacles = <<>>
    /\ octree = NewOctree(Vec(WorldSize, WorldSize, WorldSize))
    /\ pc = "idle"
    /\ idx = 1
    /\ found = <<>>
    /\ lastOp = NoOp
    /\ inserted = <<>>
    /\ ticks = 0
    /\ calls = 0
    /\ created = Len(boids)
    /\ sboids = <<>>
    /\ needsSettling = TRUE
    /\ lastUpdateTime = 0
    /\ now = 0
    /\ sobstacles = <<>>
    /\ wall = NoWall

\* Flock.update(), from its first line to its last
FlockTick ==
    /\ pc = "idle"
    /\ ticks < MaxTicks
    /\ octree' = InsertAll(NodeClear(octree), boids, 1)
    /\ inserted' = Ids(boids)
    /\ \E before \in {UpdateUpTo(boids, octree', obstacles, 1, Len(boids) - 1)} :
        /\ boids' = IF boids = <<>> THEN boids
                    ELSE UpdateUpTo(before, octree', obstacles, Len(boids), Len(boids))
        /\ found' = IF boids = <<>> THEN found
                    ELSE FindNeighbors(octree', before[Len(boids)].id,
                                       BoidGetPerceptionRadius(before[Len(boids)]), before)
    /\ idx' = Len(boids) + 1
    /\ ticks' = ticks + 1
    /\ lastOp' = [op |-> "tick", behavior |-> "", arg |-> Fin(0)]
    /\ UNCHANGED <<obstacles, boidSize, pc, calls, created, settlingFlock>>

NextTick == FlockTick

SpecTick == InitTick /\ [][NextTick]_vars

\* no boid other than b lies inside one of b's three interaction ranges
NoNeighborInRange(b, bs) ==
    \A k \in 1..Len(bs) :
        bs[k].id # b.id =>
            LET distance == VLen(VSub(b.pos, bs[k].pos))
            IN /\ distance >= b.ranges.separation
               /\ distance >= b.ranges.alignment
               /\ distance >= b.ranges.cohesion

\* C12. Zero-neighbor agent: with no neighbor inside any interaction range the
\* separation, alignment and cohesion contributions are zero, so the update is the
\* one an empty neighbor list gives (obstacle avoidance and boundary handling alone).
C12_NoNeighborNoFlockingForce ==
    [][(lastOp'.op = "tick" /\ boids # <<>> /\ ~boids[1].pos.nan
            /\ NoNeighborInRange(boids[1], boids))
        => boids'[1] = BoidUpdate(boids[1], <<>>, obstacles, boids)]_vars

\* C13. Minimum-speed clamp scenario: a single agent with no neighbors and no
\* obstacles (and finite weights) whose velocity magnitude is below minSpeed has
\* speed minSpeed after one tick.
C13_SlowAgentEndsAtMinSpeed ==
    [][(lastOp'.op = "update" /\ Len(boids) = 1 /\ obstacles = <<>>
            /\ \A behavior \in Behaviors : IsFinite(boids[1].weights[behavior])
            /\ ~boids[1].vel.nan
            /\ LenSq(boids[1].vel) < boids[1].minSpeed * boids[1].minSpeed)
        => /\ ~boids'[1].vel.nan
           /\ LenSq(boids'[1].vel)
                >= (boids[1].minSpeed - SpeedTolerance) * (boids[1].minSpeed - SpeedTolerance)
           /\ LenSq(boids'[1].vel)
                <= (boids[1].minSpeed + SpeedTolerance) * (boids[1].minSpeed + SpeedTolerance)]_vars

\* the positions (0,0,0), (1,0,0), (2,0,0), separation range 5, no alignment or
\* cohesion weight
RowScenario ==
    /\ Len(boids) = 3
    /\ boids[1].pos = Vec(0, 0, 0)
    /\ boids[2].pos = Vec(Unit, 0, 0)
    /\ boids[3].pos = Vec(2 * Unit, 0, 0)
    /\ \A k \in 1..3 :
        /\ boids[k].ranges.separation = 5 * Unit
        /\ boids[k].weights.alignment = Fin(0)
        /\ boids[k].weights.cohesion = Fin(0)
        /\ boids[k].weights.separation = DefaultWeights.separation

\* C14. Separation scenario: after one Flock tick agent 0 has been accelerated in
\* the negative X direction and agent 2 in the positive X direction, relative to
\* the same tick run with zero separation weight (a velocity that moved the wrong
\* way by more than the rounding of the arithmetic refutes it).
C14_RowIsPushedApart ==
    [][(lastOp'.op = "tick" /\ RowScenario)
        => LET still == FlockUpdate(FlockSetWeight(boids, "separation", Fin(0)),
                                    octree, obstacles)
           IN /\ boids'[1].vel.x < still[1].vel.x + SpeedTolerance
              /\ boids'[3].vel.x > still[3].vel.x - SpeedTolerance]_vars

\* two vectors that differ by no more than the rounding of the arithmetic
VClose(u, v) ==
    /\ u.nan = v.nan
    /\ Abs(u.x - v.x) <= SpeedTolerance
    /\ Abs(u.y - v.y) <= SpeedTolerance
    /\ Abs(u.z - v.z) <= SpeedTolerance

\* two flocks with the same positions and velocities
SameKinematics(as, bs) ==
    /\ Len(as) = Len(bs)
    /\ \A k \in 1..Len(as) : VClose(as[k].pos, bs[k].pos) /\ VClose(as[k].vel, bs[k].vel)

\* C15. Visual scale is cosmetic: two flocks that differ only in the value passed
\* to setBoidSize have equal positions and velocities after a tick.
C15_BoidSizeIsCosmetic ==
    [][lastOp'.op = "tick"
        => \A size \in SizeInputs :
              SameKinematics(FlockUpdate(FlockSetBoidSize(boids, size), octree, obstacles),
                             boids')]_vars

\* every boid updated from the flock as it was when the tick began
SnapshotUpdate(bs, root, obs) ==
    LET tree == InsertAll(NodeClear(root), bs, 1)
    IN [k \in 1..Len(bs) |->
          BoidUpdate(bs[k],
                     FindNeighbors(tree, bs[k].id, BoidGetPerceptionRadius(bs[k]), bs),
                     obs, bs)]

\* C18. Tick data isolation: the forces on each agent depend only on the other
\* agents' positions and velocities as they were at the start of the tick, so the
\* flock after a tick is what updating every agent from that snapshot gives.
C18_ForcesReadTickStart ==
    [][lastOp'.op = "tick"
        => SameKinematics(boids', SnapshotUpdate(boids, octree, obstacles))]_vars

----------------------------------------------------------------------------
(* The Flock with a settling flag: update() reads the clock and skips the  *)
(* frame after a (re)build and every frame that comes too late.            *)

\* the elapsed times between two frames, in ms: the longest that is integrated
\* and the shortest that is skipped
DeltaInputs == {100, 101}

\* the threshold of "deltaTime > 0.1", in ms
MaxDelta == 100

\* the mutant of SettlingSkips: the settling flag is not looked at
SkipsLateFramesOnly(flag, delta) == delta > MaxDelta

\* "if (this.needsSettling || deltaTime > 0.1)"
SettlingSkips(flag, delta) == flag \/ delta > MaxDelta

\* the mutant of RecordedTime: the time is recorded after the early return
RecordedTimeUnlessSkipped(last, current, skipped) == IF skipped THEN last ELSE current

\* "this.lastUpdateTime = currentTime", which comes before the early return
RecordedTime(last, current, skipped) == current

\* Boid.update(boids, deltaTime) of the Boid variant this Flock was written for:
\* of its steps only the integration of the position over the elapsed time is kept
BoidStep(b, bs, delta) == [b EXCEPT !.pos = VAdd(b.pos, VScale(b.vel, delta, 1000))]

\* "for (const boid of this.boids) boid.update(this.boids, deltaTime)"
StepAll(bs, delta) == [k \in 1..Len(bs) |-> BoidStep(bs[k], bs, delta)]

InitSettling ==
    /\ boids = <<>>
    /\ obstacles = <<>>
    /\ boidSize = DefaultBoidSize
    /\ octree = NewOctree(Vec(WorldSize, WorldSize, WorldSize))
    /\ pc = "idle"
    /\ idx = 1
    /\ found = <<>>
    /\ lastOp = NoOp
    /\ inserted = <<>>
    /\ ticks = 0
    /\ calls = 0
    /\ InitSettlingFlock

\* Flock.update() of the settling Flock, called delta ms after the last event.
\* lastOp keeps the time of the call and what the call did: "settling" (skipped,
\* the flag was set), "late" (skipped, too much time had passed) or "integrated"
SettlingUpdate ==
    /\ ticks < MaxTicks
    /\ \E delta \in DeltaInputs :
        LET currentTime == now + delta
            deltaTime == currentTime - lastUpdateTime
            skipped == SettlingSkips(needsSettling, deltaTime)
        IN /\ now' = currentTime
           /\ lastUpdateTime' = RecordedTime(lastUpdateTime, currentTime, skipped)
           /\ needsSettling' = IF skipped THEN FALSE ELSE needsSettling
           /\ sboids' = IF skipped THEN sboids ELSE StepAll(sboids, deltaTime)
           /\ lastOp' = [op |-> "settlingUpdate",
                         behavior |-> IF ~skipped THEN "integrated"
                                      ELSE IF needsSettling THEN "settling" ELSE "late",
                         arg |-> Fin(currentTime)]
    /\ ticks' = ticks + 1
    /\ UNCHANGED <<boids, obstacles, boidSize, octree, pc, idx, found, inserted, calls, created,
                   sobstacles, wall>>

NextSettling ==
    \/ SettlingUpdate
    \/ SettlingSetBoidCount

SpecSettling == InitSettling /\ [][NextSettling]_vars

\* the time that passes between the last call and the call being made
Elapsed == lastOp'.arg.val - lastOp.arg.val

\* C16. Settling flag: the first update() after the flock is constructed or after
\* setBoidCount changes no agent and clears the flag; it suppresses exactly that
\* tick: the update() that follows within 100 ms does update the agents.
C16_SettlingSuppressesOneTick ==
    [][/\ (lastOp'.op = "settlingUpdate" /\ lastOp.op \in {"none", "settlingSetBoidCount"})
            => /\ sboids' = sboids
               /\ needsSettling' = FALSE
       /\ (lastOp'.op = "settlingUpdate" /\ lastOp.op = "settlingUpdate"
                /\ lastOp.behavior = "settling" /\ Elapsed <= MaxDelta)
            => /\ lastOp'.behavior = "integrated"
               /\ sboids' = StepAll(sboids, Elapsed)]_vars

\* the frame after the settling frame has moved the boids
C16_Witness ==
    /\ lastOp.op = "settlingUpdate"
    /\ lastOp.behavior = "integrated"
    /\ ticks = 2
    /\ calls = 0
    /\ sboids # <<>>
    /\ sboids # ClusteredBoids(Len(sboids), 0, 0)
    /\ sboids # ClusteredBoids(Len(sboids), 50, 0)

\* C17. Elapsed-time skip: an update() that comes more than 0.1 s after the
\* previous update() changes no agent but records the current time, so that the
\* next update() within 0.1 s integrates: the flock never skips for ever.
C17_LateFrameSkippedOnce ==
    [][(lastOp'.op = "settlingUpdate" /\ lastOp.op = "settlingUpdate")
        => /\ lastUpdateTime' = now'
           /\ Elapsed > MaxDelta => sboids' = sboids
           /\ Elapsed <= MaxDelta
                => /\ lastOp'.behavior = "integrated"
                   /\ sboids' = StepAll(sboids, Elapsed)]_vars

\* of three frames the first was the settling frame and the second came too late:
\* the third has moved the boids, by its own 100 ms only
C17_Witness ==
    /\ lastOp.op = "settlingUpdate"
    /\ lastOp.behavior = "integrated"
    /\ ticks = 3
    /\ calls = 0
    /\ lastUpdateTime = now
    /\ sboids # <<>>
    /\ \E rnd \in RandomInputs :
        /\ sboids = StepAll(ClusteredBoids(Len(sboids), rnd, 0), MaxDelta)
        /\ sboids # ClusteredBoids(Len(sboids), rnd, 0)

----------------------------------------------------------------------------
(* The shape of the octree *)

\* C19. Leaf/internal exclusivity: in every state of the octree that insert,
\* subdivide, queryRange and clear can reach, each node has no children, or has
\* exactly 8 children and an empty list of its own: none holds agents and children.
C19_LeafOrInternal ==
    \A n \in AllNodes(octree) :
        \/ n.children = <<>>
        \/ Len(n.children) = 8 /\ n.boids = <<>>

\* an insert has gone through an internal root into a child that holds agents
C19_Witness ==
    /\ lastOp.op = "insert"
    /\ Len(inserted) > NodeMaxBoids + 1
    /\ Len(octree.children) = 8
    /\ \E k \in 1..8 : lastOp.id \in Range(octree.children[k].boids)

\* C20. clear(): after Octree.clear(), whatever inserts came before, the root is a
\* leaf that holds no agent, and queryRange and findNeighbors return nothing for
\* any sphere; a query made later returns no agent inserted before the clear,
\* unless it was inserted again.
C20_ClearEmptiesTheIndex ==
    /\ lastOp.op = "clear" =>
        /\ octree.children = <<>>
        /\ octree.boids = <<>>
        /\ \A center \in QueryCenters, radius \in QueryRadii :
                NodeQueryRange(octree, center, radius, <<>>, boids) = <<>>
        /\ \A k \in 1..Len(boids), radius \in NeighborRadii :
                FindNeighbors(octree, boids[k].id, radius, boids) = <<>>
    /\ lastOp.op \in {"queryRange", "findNeighbors"} => Range(found) \subseteq Range(inserted)

\* clear has emptied a subdivided octree that had returned agents to the last query
C20_Witness ==
    /\ lastOp.op = "clear"
    /\ Len(found) >= 3
    /\ \E k \in 1..Len(found) : BoidById(boids, found[k]).id > NodeMaxBoids + 1
    /\ octree = RootNode

----------------------------------------------------------------------------
(* Degenerate geometry *)

\* every number a boid holds is finite
FiniteBoid(b) ==
    /\ ~b.pos.nan
    /\ ~b.vel.nan
    /\ \A behavior \in Behaviors : IsFinite(b.weights[behavior])

\* C21. Degenerate geometry is never fatal: when every boid holds finite numbers,
\* Boid.update leaves its boid with a finite position and a finite velocity, also
\* with no neighbor, with a zero vector to normalize, and with a boid or an
\* obstacle at distance zero.
C21_UpdateKeepsFinite ==
    [][(lastOp'.op = "update" /\ \A k \in 1..Len(boids) : FiniteBoid(boids[k]))
        => /\ ~boids'[lastOp'.arg.val].pos.nan
           /\ ~boids'[lastOp'.arg.val].vel.nan]_vars

\* the neighbors align() counts: "distance < this.ranges.alignment"
AlignNear(b, neighbors, bs) ==
    SelectSeq(Others(b, neighbors),
              LAMBDA id : VLen(VSub(b.pos, PosOf(bs, id))) < b.ranges.alignment)

\* the weighted sum of velocities align() normalizes, before it is divided by the
\* total weight
AlignSum(b, neighbors, bs) ==
    LET near == AlignNear(b, neighbors, bs)
    IN SumVecs([k \in 1..Len(near) |->
                    VScale(BoidById(bs, near[k]).vel,
                           AlignWeight(b, VLen(VSub(b.pos, PosOf(bs, near[k])))), 1)], 1)

\* the neighbors cohesion() counts: "distance < this.ranges.cohesion"
CohesionNear(b, neighbors, bs) ==
    SelectSeq(Others(b, neighbors),
              LAMBDA id : VLen(VSub(b.pos, PosOf(bs, id))) < b.ranges.cohesion)

\* "desired" of cohesion(): from the boid to the weighted center of its neighbors
CohesionDesired(b, neighbors, bs) ==
    LET near == CohesionNear(b, neighbors, bs)
        weight(k) == CohesionWeight(b, BoidById(bs, near[k]),
                                    VLen(VSub(b.pos, PosOf(bs, near[k]))))
        sum == SumVecs([k \in 1..Len(near) |-> VScale(PosOf(bs, near[k]), weight(k), 1)], 1)
        totalWeight == SumInts([k \in 1..Len(near) |-> weight(k)], 1)
    IN IF totalWeight = 0 THEN NaNVec ELSE VSub(VScale(sum, 1, totalWeight), b.pos)

\* C22. Zero-direction guard: when the velocities of the neighbors in alignment
\* range add up to the zero vector, align() contributes the zero vector; when the
\* center of the neighbors in cohesion range is the boid's own position,
\* cohesion() contributes the zero vector.
C22_ZeroDirectionZeroSteering ==
    \A k \in 1..Len(boids) :
        /\ (FiniteBoid(boids[k]) /\ AlignNear(boids[k], Ids(boids), boids) # <<>>
                /\ AlignSum(boids[k], Ids(boids), boids) = ZeroVec)
            => Align(boids[k], Ids(boids), boids) = ZeroVec
        /\ (FiniteBoid(boids[k]) /\ CohesionNear(boids[k], Ids(boids), boids) # <<>>
                /\ CohesionDesired(boids[k], Ids(boids), boids) = ZeroVec)
            => Cohesion(boids[k], Ids(boids), boids) = ZeroVec

\* C23. Steer-towards law: the separation, the alignment and the cohesion
\* contribution handed to update() are each clamp(desired - velocity, maxForce):
\* none is longer than maxForce.
C23_ContributionsWithinMaxForce ==
    \A k \in 1..Len(boids) :
        FiniteBoid(boids[k]) =>
            /\ VLenLE(Separate(boids[k], Ids(boids), boids), MaxForce + SpeedTolerance)
            /\ VLenLE(Align(boids[k], Ids(boids), boids), MaxForce + SpeedTolerance)
            /\ VLenLE(Cohesion(boids[k], Ids(boids), boids), MaxForce + SpeedTolerance)

----------------------------------------------------------------------------
(* The order of the steps of a tick *)

\* C24. Tick pipeline ordering: in every Flock.update() the octree is cleared
\* before a boid is inserted and holds every boid before the first findNeighbors;
\* it is not modified while the boids are updated; and update() is called on each
\* boid exactly once, in the order of the flock.
C24_TickPipeline ==
    [][/\ lastOp'.op = "rebuild"
            => /\ octree' = InsertAll(RootNode, boids, 1)
               /\ inserted' = Ids(boids)
               /\ idx' = 1
               /\ boids' = boids
       /\ lastOp'.op = "update"
            => /\ lastOp.op \in {"rebuild", "update"}
               /\ octree' = octree
               /\ inserted = Ids(boids)
               /\ lastOp'.arg.val = idx
               /\ idx' = idx + 1
               /\ idx <= Len(boids)
               /\ found' = FindNeighbors(octree, boids[idx].id,
                                         BoidGetPerceptionRadius(boids[idx]), boids)
               /\ \A k \in 1..Len(boids) : k # idx => boids'[k] = boids[k]
       /\ lastOp'.op = "tick"
            => /\ lastOp.op \in {"rebuild", "update"}
               /\ idx = Len(boids) + 1
               /\ octree' = octree
               /\ boids' = boids]_vars

\* the second tick of a flock of three is over: its rebuild started from the
\* octree the first tick had filled
C24_Witness ==
    /\ lastOp.op = "tick"
    /\ ticks = 2
    /\ Len(boids) = 3
    /\ idx = 4
    /\ Len(octree.boids) = 3

----------------------------------------------------------------------------
(* The Flock between its setters, its rebuilds and its frames *)

\* a frame between two calls of the UI; the frames and the calls before them are
\* bounded together
RebuildTick ==
    /\ calls + ticks < MaxCalls
    /\ FlockTick

NextRebuild ==
    \/ SetWeight
    \/ SetMaxSpeed
    \/ SetPerceptionRadius
    \/ SetBoidSize
    \/ SetBoidCount
    \/ RebuildTick

SpecRebuild == Init /\ [][NextRebuild]_vars

\* the parameters the setters of the Flock broadcast
Parameters(b) ==
    [weights |-> b.weights, maxSpeed |-> b.maxSpeed, minSpeed |-> b.minSpeed,
     ranges |-> b.ranges]

\* C25. Broadcast and frame: after Flock.setWeight(b, w) with a valid w every
\* boid's getWeight(b) is w, while its other weights, its position, velocity,
\* speed limits and ranges are as before; and after any setters, setBoidCount
\* calls and ticks all boids hold the same weights, speed limits and ranges.
C25_BroadcastAndFrame ==
    /\ [][(lastOp'.op = "setWeight" /\ IsFinite(lastOp'.arg) /\ lastOp'.arg.val >= 0)
            => /\ Len(boids') = Len(boids)
               /\ \A k \in 1..Len(boids) :
                    /\ BoidGetWeight(boids'[k], lastOp'.behavior) = lastOp'.arg
                    /\ \A other \in Behaviors \ {lastOp'.behavior} :
                            BoidGetWeight(boids'[k], other) = BoidGetWeight(boids[k], other)
                    /\ boids'[k].pos = boids[k].pos
                    /\ boids'[k].vel = boids[k].vel
                    /\ boids'[k].maxSpeed = boids[k].maxSpeed
                    /\ boids'[k].minSpeed = boids[k].minSpeed
                    /\ boids'[k].ranges = boids[k].ranges]_vars
    /\ [](\A j, k \in 1..Len(boids) : Parameters(boids[j]) = Parameters(boids[k]))

\* after a frame and a rebuild, setWeight(b, 1.5) has reached both boids
C25_Witness ==
    /\ lastOp.op = "setWeight"
    /\ lastOp.arg = Fin((3 * Unit) \div 2)
    /\ ticks >= 1
    /\ Len(boids) = 2
    /\ boids[1].id > 3
    /\ \A k \in 1..2 : BoidGetWeight(boids[k], lastOp.behavior) = lastOp.arg
    /\ DefaultWeights[lastOp.behavior] # lastOp.arg

\* C28. Parameters survive a population rebuild: the weights, the speed limits and
\* the ranges that the setters of the Flock broadcast are in effect on every boid
\* after a later setBoidCount, as the last setBoidSize value is.
C28_ParametersSurviveRebuild ==
    [][(lastOp'.op = "setBoidCount" /\ boids # <<>>)
        => \A k \in 1..Len(boids') :
            /\ boids'[k].scale = boidSize
            /\ Parameters(boids'[k]) = Parameters(boids[1])]_vars

----------------------------------------------------------------------------
(* The depth of the octree *)

RECURSIVE Depth(_)
RECURSIVE DeepestFrom(_, _)
\* the number of levels below a node
Depth(node) == IF node.children = <<>> THEN 0 ELSE 1 + DeepestFrom(node.children, 1)
DeepestFrom(children, k) ==
    IF k > Len(children) THEN 0
    ELSE Max(Depth(children[k]), DeepestFrom(children, k + 1))

RECURSIVE Halvings(_)
\* how often a box of this size is halved before its diagonal is at most minSize
Halvings(size) ==
    IF ~VLenGT(size, NodeMinSize) THEN 0 ELSE 1 + Halvings(VScale(size, 1, 2))

\* C26. Minimum-size floor and termination: a node whose diagonal is at most the
\* minimum size (5) never subdivides and keeps its agents over capacity as an
\* unsplit leaf; insert returns for every population, also for many agents at one
\* position, and the depth of the tree is bounded by the halvings of the root.
C26_MinimumSizeFloor ==
    /\ \A n \in AllNodes(octree) : ~VLenGT(BoxSize(n), NodeMinSize) => n.children = <<>>
    /\ Depth(octree) <= Halvings(BoxSize(octree))

\* ten agents at one position have gone down to a leaf of the minimum size, which
\* holds them all
C26_Witness ==
    /\ lastOp.op = "insert"
    /\ Len(inserted) = 10
    /\ \E n \in AllNodes(octree) :
        /\ ~VLenGT(BoxSize(n), NodeMinSize)
        /\ Len(n.boids) = 10
        /\ n.children = <<>>
    /\ Depth(octree) = Halvings(BoxSize(octree))

\* C27. findNeighbors(agent, r) returns a list that does not hold the agent that
\* asks and holds no agent twice, whatever was inserted since the last clear, also
\* agents that lie on a face of a child's box.
C27_NeighborsWithoutSelfOrDuplicates ==
    lastOp.op = "findNeighbors" =>
        /\ lastOp.id \notin Range(found)
        /\ Cardinality(Range(found)) = Len(found)

\* a boid held by a subdivided octree has asked for its neighbors, and one of
\* them lies on a face of the node that holds it
C27_Witness ==
    /\ lastOp.op = "findNeighbors"
    /\ Len(octree.children) = 8
    /\ HeldCount(octree, lastOp.id) = 1
    /\ Len(found) >= 2
    /\ \E n \in AllNodes(octree) :
        \E k \in 1..Len(n.boids) :
            /\ n.boids[k] \in Range(found)
            /\ PosOf(boids, n.boids[k]).x \in {n.min.x, n.max.x}

----------------------------------------------------------------------------
(* The radius of the neighbor query *)

\* the largest of the three interaction ranges of a boid
WidestRange(b) == Max(b.ranges.separation, Max(b.ranges.alignment, b.ranges.cohesion))

\* C29. Query radius covers every interaction range: after any setPerceptionRadius
\* calls with positive radii the separation range and the alignment range are at
\* most the cohesion range that getPerceptionRadius returns, so that the neighbors
\* Flock.update finds with it hold every boid within one of the three ranges.
C29_QueryCoversRanges ==
    /\ [](\A k \in 1..Len(boids) :
            /\ boids[k].ranges.separation <= BoidGetPerceptionRadius(boids[k])
            /\ boids[k].ranges.alignment <= BoidGetPerceptionRadius(boids[k]))
    /\ [][lastOp'.op = "update"
            => \A k \in 1..Len(boids) :
                (/\ k # idx
                 /\ ~boids[k].pos.nan /\ ~boids[idx].pos.nan
                 /\ VLen(VSub(boids[idx].pos, boids[k].pos)) < WidestRange(boids[idx]))
                    => boids[k].id \in Range(found')]_vars

----------------------------------------------------------------------------
(* A wall of obstacles *)

\* the obstacles one createWallOfObstacles call is followed for
MaxWall == 8

WallStarts == {ZeroVec, Vec(30 * Unit, 40 * Unit, 0)}
WallEnds == {ZeroVec, Vec(30 * Unit, 40 * Unit, 0), Vec(60 * Unit, 80 * Unit, 0)}
\* 20 is the default of the parameter
SpacingInputs == {20 * Unit, 25 * Unit, 0, -20 * Unit}

\* Math.floor(length / spacing) for a length >= 0: Infinity when a positive
\* length is divided by 0, NaN for 0 / 0, and -0 (which is 0 in a comparison)
\* when the length 0 is divided by a negative spacing
WallCount(length, spacing) ==
    IF spacing = 0 THEN (IF length = 0 THEN NaN ELSE PosInf)
    ELSE IF spacing > 0 THEN Fin(length \div spacing)
    ELSE Fin(-((length + (-spacing) - 1) \div (-spacing)))

\* "i <= numObstacles", false when numObstacles is NaN
LoopTest(i, numObstacles) ==
    CASE numObstacles.kind = "fin" -> i <= numObstacles.val
      [] numObstacles.kind = "inf" -> numObstacles.val > 0
      [] OTHER -> FALSE

\* start.clone().add(direction.clone().multiplyScalar(i * spacing)), direction
\* being end - start after normalize()
WallPosition(start, end, i, spacing) ==
    IF i * spacing >= 0 THEN VAdd(start, VSetLength(VSub(end, start), i * spacing))
    ELSE VSub(start, VSetLength(VSub(end, start), -(i * spacing)))

\* Flock.addObstacle(position) of the settling Flock: the mesh is pushed
AddWallObstacle(obs, position) == Append(obs, position)

InitWall ==
    /\ boids = <<>>
    /\ obstacles = <<>>
    /\ boidSize = DefaultBoidSize
    /\ octree = NewOctree(Vec(WorldSize, WorldSize, WorldSize))
    /\ pc = "idle"
    /\ idx = 1
    /\ found = <<>>
    /\ lastOp = NoOp
    /\ inserted = <<>>
    /\ ticks = 0
    /\ calls = 0
    /\ created = 0
    /\ sboids = <<>>
    /\ needsSettling = TRUE
    /\ lastUpdateTime = 0
    /\ now = 0
    /\ sobstacles = <<>>
    /\ wall = NoWall

\* Flock.createWallOfObstacles(start, end, spacing) is entered: the lines before
\* its loop.  The loop is followed one iteration at a time, whether it ends being
\* what is asked of it
CreateWallOfObstacles ==
    /\ wall.pc # "loop"
    /\ calls < MaxCalls
    /\ \E start \in WallStarts, end \in WallEnds, spacing \in SpacingInputs :
        wall' = [pc |-> "loop", start |-> start, end |-> end, spacing |-> spacing,
                 numObstacles |-> WallCount(VLen(VSub(end, start)), spacing), i |-> 0]
    /\ lastOp' = [op |-> "createWallOfObstacles", behavior |-> "", arg |-> Fin(wall'.spacing)]
    /\ calls' = calls + 1
    /\ UNCHANGED <<boids, obstacles, boidSize, octree, pc, idx, found, inserted, ticks, created,
                   sboids, needsSettling, lastUpdateTime, now, sobstacles>>

\* one iteration of the loop of createWallOfObstacles
WallStep ==
    /\ wall.pc = "loop"
    /\ LoopTest(wall.i, wall.numObstacles)
    /\ wall.i < MaxWall
    /\ sobstacles' = AddWallObstacle(sobstacles,
                                     WallPosition(wall.start, wall.end, wall.i, wall.spacing))
    /\ wall' = [wall EXCEPT !.i = wall.i + 1]
    /\ UNCHANGED <<boids, obstacles, boidSize, octree, pc, idx, found, lastOp, inserted, ticks,
                   calls, created, sboids, needsSettling, lastUpdateTime, now>>

\* the test of the loop fails and createWallOfObstacles returns
WallReturn ==
    /\ wall.pc = "loop"
    /\ ~LoopTest(wall.i, wall.numObstacles)
    /\ wall' = [wall EXCEPT !.pc = "returned"]
    /\ UNCHANGED <<boids, obstacles, boidSize, octree, pc, idx, found, lastOp, inserted, ticks,
                   calls, created, sboids, needsSettling, lastUpdateTime, now, sobstacles>>

NextWall ==
    \/ CreateWallOfObstacles
    \/ WallStep
    \/ WallReturn

\* a call that has been entered runs on: nothing else is scheduled in between
SpecWall == InitWall /\ [][NextWall]_vars /\ WF_vars(WallStep) /\ WF_vars(WallReturn)

\* the obstacles the call in progress, or the last call, has added
WallObstacles == SubSeq(sobstacles, Len(sobstacles) - wall.i + 1, Len(sobstacles))

\* p lies on the segment from a to b
OnSegment(p, a, b) ==
    LET d == VSub(b, a)
        w == VSub(p, a)
    IN /\ w.y * d.z - w.z * d.y = 0
       /\ w.z * d.x - w.x * d.z = 0
       /\ w.x * d.y - w.y * d.x = 0
       /\ w.x * d.x + w.y * d.y + w.z * d.z >= 0
       /\ w.x * d.x + w.y * d.y + w.z * d.z <= LenSq(d)

\* a call with a positive spacing has added floor(|end - start| / spacing) + 1
\* obstacles when it returns, each on the segment from start to end
WallOfPositiveSpacing ==
    (wall.pc = "returned" /\ wall.spacing > 0)
        => /\ wall.i = VLen(VSub(wall.end, wall.start)) \div wall.spacing + 1
           /\ \A k \in 1..Len(WallObstacles) : OnSegment(WallObstacles[k], wall.start, wall.end)

\* the loop of a call in progress has finitely many iterations left: its test
\* "i <= numObstacles" is not one against Infinity
WallIterationsFinite ==
    wall.pc = "loop" => ~(wall.numObstacles.kind = "inf" /\ wall.numObstacles.val > 0)

\* C30. createWallOfObstacles(start, end, spacing) returns for every start, end
\* and spacing, spacing 0 and negative spacings included, having added a finite
\* number of obstacles: floor(|end - start| / spacing) + 1 for a positive
\* spacing, each on the segment from start to end.
C30_WallTerminates ==
    /\ []WallIterationsFinite
    /\ [](wall.pc = "loop" => <>(wall.pc = "returned"))
    /\ []WallOfPositiveSpacing

====
